---- MODULE Spec2Model ----
(***************************************************************************)
(* Model of public/app.js, the head-teacher resource directory: the pin    *)
(* store (loadPinned / savePinned / togglePinned), the filter engine       *)
(* (filterData, extractYear, sectionKey), the statistics (computeStats,    *)
(* computeGlobalTotals), the auto-open policy (shouldAutoOpenCategory),    *)
(* the start-up sequence (init) and the event handlers bound by            *)
(* bindEventListeners.                                                     *)
(*                                                                         *)
(* Text is a sequence of one-character strings, so that toLowerCase,       *)
(* trim, split, includes, the /20\d{2}/ match and the JSON encoding are    *)
(* computed character by character as the JavaScript does.                 *)
(***************************************************************************)
EXTENDS Integers, Sequences, FiniteSets, TLC

\* ------------------------------------------------------------------ text

\* The JavaScript value undefined (an absent optional property).  A real text
\* has one-character elements only, so this is no text.
Undefined == <<"<undefined>">>

\* The JavaScript value null (getItem of a missing key, a failed regex match).
Null == <<"<null>">>

\* What a template literal makes of a value: `${undefined}` is "undefined".
Str(v) ==
  IF v = Undefined THEN <<"u", "n", "d", "e", "f", "i", "n", "e", "d">>
  ELSE IF v = Null THEN <<"n", "u", "l", "l">>
  ELSE v

\* JavaScript truthiness of a text-or-absent value: undefined, null and ""
\* are falsy.
Truthy(v) == v # Undefined /\ v # Null /\ v # <<>>

UpperCase == <<"A", "B", "C", "D", "E", "F", "G", "H", "I", "J", "K", "L", "M",
               "N", "O", "P", "Q", "R", "S", "T", "U", "V", "W", "X", "Y", "Z">>

LowerCase == <<"a", "b", "c", "d", "e", "f", "g", "h", "i", "j", "k", "l", "m",
               "n", "o", "p", "q", "r", "s", "t", "u", "v", "w", "x", "y", "z">>

UpperCaseLetters == {UpperCase[i] : i \in 1..Len(UpperCase)}

LowerChar(c) ==
  IF c \in UpperCaseLetters
  THEN LowerCase[CHOOSE i \in 1..Len(UpperCase) : UpperCase[i] = c]
  ELSE c

\* String.prototype.toLowerCase
toLowerCase(t) == [i \in 1..Len(t) |-> LowerChar(t[i])]

IsSpace(c) == c \in {" ", "\t", "\n"}

IsDigit(c) == c \in {"0", "1", "2", "3", "4", "5", "6", "7", "8", "9"}

\* String.prototype.trim
trim(t) ==
  LET keep == {i \in 1..Len(t) : ~IsSpace(t[i])}
  IN  IF keep = {} THEN <<>>
      ELSE SubSeq(t, CHOOSE i \in keep : \A j \in keep : i <= j,
                     CHOOSE i \in keep : \A j \in keep : i >= j)

\* t.split(/\s+/).filter(Boolean): the maximal runs of non-space characters.
RECURSIVE SplitFrom(_, _, _)
SplitFrom(t, i, cur) ==
  IF i > Len(t) THEN (IF cur = <<>> THEN <<>> ELSE <<cur>>)
  ELSE IF IsSpace(t[i])
       THEN (IF cur = <<>> THEN <<>> ELSE <<cur>>) \o SplitFrom(t, i + 1, <<>>)
       ELSE SplitFrom(t, i + 1, Append(cur, t[i]))

splitWords(t) == SplitFrom(t, 1, <<>>)

\* String.prototype.includes
includes(hay, needle) ==
  \E i \in 1..(Len(hay) - Len(needle) + 1) :
    SubSeq(hay, i, i + Len(needle) - 1) = needle

\* Array.prototype.join with a separator text.
RECURSIVE join(_, _)
join(texts, sep) ==
  IF texts = <<>> THEN <<>>
  ELSE IF Len(texts) = 1 THEN texts[1]
  ELSE texts[1] \o sep \o join(Tail(texts), sep)

Space == <<" ">>

\* extractYear (app.js 451-454): the first match of /20\d{2}/, or null.  The
\* default parameter turns undefined into ''.
extractYear(text) ==
  LET t == IF text = Undefined THEN <<>> ELSE Str(text)
      hits == {i \in 1..(Len(t) - 3) :
                 /\ t[i] = "2" /\ t[i + 1] = "0"
                 /\ IsDigit(t[i + 2]) /\ IsDigit(t[i + 3])}
  IN  IF hits = {} THEN Null
      ELSE LET first == CHOOSE i \in hits : \A j \in hits : i <= j
           IN  SubSeq(t, first, first + 3)

\* sectionKey (app.js 456-458)
sectionKey(categoryCode, sectionCode) ==
  Str(categoryCode) \o <<"-">> \o Str(sectionCode)

\* 'all', the value of the first option of both select elements.
All == <<"a", "l", "l">>

\* ------------------------------------------------------------------ dataset

\* The documents data/resources.json may hold (app.js 45-46).  A category is
\* [code, title, description, links, sections], a section is [code, title,
\* status, description, links], a link is [label, url]; an optional
\* description that the document leaves out is Undefined.
Link(label, url) == [label |-> label, url |-> url]

SectionA1 ==
  [code |-> <<"1">>, title |-> <<"I", "n", "k">>,
   status |-> <<"U", "p", " ", "2", "0", "2", "3">>,
   description |-> <<"F", "o", "o", " ", "b", "a", "r">>,
   links |-> <<Link(<<"D", "o", "c">>, <<"u", "/", "x">>)>>]

SectionA2 ==
  [code |-> <<"2">>, title |-> <<"O", "i", "l">>,
   status |-> <<"T", "B", "D">>,
   description |-> Undefined,
   links |-> <<>>]

SectionB1 ==
  [code |-> <<"1">>, title |-> <<"G", "e", "n", "e">>,
   status |-> <<"2", "0", "1", "9">>,
   description |-> <<"b", "a", "r">>,
   links |-> <<Link(<<"W", "e", "b">>, <<"u", "/", "y">>),
               Link(<<"P", "d", "f">>, <<"u", "/", "z">>)>>]

CategoryA ==
  [code |-> <<"A">>, title |-> <<"A", "r", "t">>,
   description |-> Undefined,
   links |-> <<Link(<<"H", "u", "b">>, <<"h", "/", "a">>)>>,
   sections |-> <<SectionA1, SectionA2>>]

CategoryB ==
  [code |-> <<"B">>, title |-> <<"B", "i", "o">>,
   description |-> <<"L", "a", "b">>,
   links |-> <<>>,
   sections |-> <<SectionB1>>]

\* A category with quick links and no section.
CategoryC ==
  [code |-> <<"C">>, title |-> <<"F", "o", "o">>,
   description |-> <<>>,
   links |-> <<Link(<<"M", "a", "p">>, <<"h", "/", "c">>)>>,
   sections |-> <<>>]

Datasets ==
  { <<CategoryA, CategoryB, CategoryC>>,
    <<CategoryB>>,
    <<>> }

\* A document whose codes hold the hyphen sectionKey joins them with, whose
\* years come in ascending order with one of them twice, and with a section
\* that has no status.  The category codes are unique and so are the section
\* codes of each category.
SectionP2 ==
  [code |-> <<"2">>, title |-> <<"G", "y", "m">>,
   status |-> <<"2", "0", "1", "9">>,
   description |-> <<"H", "a", "l", "l">>,
   links |-> <<>>]

SectionQ12 ==
  [code |-> <<"1", "-", "2">>, title |-> <<"M", "a", "p">>,
   status |-> <<"D", "u", "e", " ", "2", "0", "2", "3">>,
   description |-> <<>>,
   links |-> <<Link(<<"D", "o", "c">>, <<"u", "/", "q">>)>>]

SectionQ3 ==
  [code |-> <<"3">>, title |-> <<"S", "k", "i">>,
   status |-> <<"2", "0", "2", "3", "/", "2", "4">>,
   description |-> <<"D", "u", "e">>,
   links |-> <<>>]

SectionQ4 ==
  [code |-> <<"4">>, title |-> <<"Z", "o", "o">>,
   status |-> Undefined,
   description |-> Undefined,
   links |-> <<>>]

CategoryP ==
  [code |-> <<"A", "-", "1">>, title |-> <<"P", "e">>,
   description |-> Undefined,
   links |-> <<>>,
   sections |-> <<SectionP2>>]

CategoryQ ==
  [code |-> <<"A">>, title |-> <<"Q", "u">>,
   description |-> Undefined,
   links |-> <<>>,
   sections |-> <<SectionQ12, SectionQ3, SectionQ4>>]

CodesDocument == <<CategoryP, CategoryQ>>

\* ------------------------------------------------------------------ pin set

\* A JavaScript Set of keys is the sequence of its members in insertion order.
has(set, key) == \E i \in 1..Len(set) : set[i] = key

add(set, key) == IF has(set, key) THEN set ELSE Append(set, key)

delete(set, key) == SelectSeq(set, LAMBDA k : k # key)

\* new Set(array): the members in order of first occurrence.
RECURSIVE SetFromArray(_)
SetFromArray(arr) ==
  IF arr = <<>> THEN <<>>
  ELSE LET front == SetFromArray(SubSeq(arr, 1, Len(arr) - 1))
       IN  add(front, arr[Len(arr)])

Members(set) == {set[i] : i \in 1..Len(set)}

\* ------------------------------------------------------------------ filter engine

Labels(links) == [i \in 1..Len(links) |-> Str(links[i].label)]

LabelsAndUrls(links) ==
  [i \in 1..Len(links) |-> Str(links[i].label) \o Space \o Str(links[i].url)]

\* app.js 298
searchTermsOf(searchTerm) == splitWords(toLowerCase(searchTerm))

\* app.js 299
matchesSearch(searchTerms, haystack) ==
  \A i \in 1..Len(searchTerms) : includes(haystack, searchTerms[i])

\* app.js 303-306
categorySearchText(category) ==
  toLowerCase(Str(category.code) \o Space \o Str(category.title) \o Space
              \o Str(category.description) \o Space
              \o join(Labels(category.links), Space))

\* app.js 329-331
sectionHaystack(category, section) ==
  toLowerCase(Str(category.code) \o Space \o Str(category.title) \o Space
              \o Str(section.code) \o Space \o Str(section.title) \o Space
              \o Str(section.status) \o Space \o Str(section.description) \o Space
              \o join(LabelsAndUrls(section.links), Space))

\* A slip of the status test: a section without a year passes any year.
sectionPassesYearless(category, section, searchTerms, statusFilter, categoryFilter, showPinnedOnly, pinned) ==
  IF categoryFilter # All /\ categoryFilter # category.code THEN FALSE
  ELSE IF showPinnedOnly /\ ~has(pinned, sectionKey(category.code, section.code))
       THEN FALSE
  ELSE IF statusFilter # All /\ extractYear(section.status) # Null
          /\ extractYear(section.status) # statusFilter
       THEN FALSE
  ELSE IF Len(searchTerms) = 0 THEN TRUE
  ELSE matchesSearch(searchTerms, sectionHaystack(category, section))

\* The callback of category.sections.filter (app.js 309-333); searchTerms is
\* the constant of app.js 298.
sectionPasses(category, section, searchTerms, statusFilter, categoryFilter, showPinnedOnly, pinned) ==
  IF categoryFilter # All /\ categoryFilter # category.code THEN FALSE
  ELSE IF showPinnedOnly /\ ~has(pinned, sectionKey(category.code, section.code))
       THEN FALSE
  ELSE IF statusFilter # All /\ extractYear(section.status) # statusFilter
       THEN FALSE
  ELSE IF Len(searchTerms) = 0 THEN TRUE
  ELSE matchesSearch(searchTerms, sectionHaystack(category, section))

\* app.js 307
categoryMatchesOf(category, searchTerms) ==
  IF Len(searchTerms) # 0
  THEN matchesSearch(searchTerms, categorySearchText(category))
  ELSE TRUE

\* The callback of state.categories.map (app.js 302-340).
filterCategory(category, searchTerms, statusFilter, categoryFilter, showPinnedOnly, pinned) ==
  [code |-> category.code, title |-> category.title,
   description |-> category.description, links |-> category.links,
   sections |-> SelectSeq(category.sections,
                  LAMBDA s : sectionPasses(category, s, searchTerms, statusFilter,
                                           categoryFilter, showPinnedOnly, pinned)),
   categoryMatches |-> categoryMatchesOf(category, searchTerms)]

\* filterData (app.js 297-342) of the state given as arguments.
filterData(cats, searchTerm, statusFilter, categoryFilter, showPinnedOnly, pinned) ==
  LET searchTerms == searchTermsOf(searchTerm)
  IN  SelectSeq([i \in 1..Len(cats) |->
                   filterCategory(cats[i], searchTerms, statusFilter, categoryFilter,
                                  showPinnedOnly, pinned)],
                LAMBDA c : Len(c.sections) # 0 \/ c.categoryMatches)

\* countLinks (app.js 354-356)
RECURSIVE countLinks(_)
countLinks(sections) ==
  IF sections = <<>> THEN 0
  ELSE Len(sections[1].links) + countLinks(Tail(sections))

\* A slip of the link count: the quick links of the categories are added.
RECURSIVE computeStatsWithQuickLinks(_)
computeStatsWithQuickLinks(cats) ==
  IF cats = <<>> THEN [sectionCount |-> 0, linkCount |-> 0]
  ELSE LET rest == computeStatsWithQuickLinks(SubSeq(cats, 1, Len(cats) - 1))
           last == cats[Len(cats)]
       IN  [sectionCount |-> rest.sectionCount + Len(last.sections),
            linkCount |-> rest.linkCount + countLinks(last.sections)
                          + Len(last.links)]

\* computeStats (app.js 344-352)
RECURSIVE computeStats(_)
computeStats(cats) ==
  IF cats = <<>> THEN [sectionCount |-> 0, linkCount |-> 0]
  ELSE LET rest == computeStats(SubSeq(cats, 1, Len(cats) - 1))
           last == cats[Len(cats)]
       IN  [sectionCount |-> rest.sectionCount + Len(last.sections),
            linkCount |-> rest.linkCount + countLinks(last.sections)]

\* A slip of the precedence: the search branch tested before the other two.
shouldAutoOpenSearchFirst(category, searchTerm, categoryFilter, showPinnedOnly, pinned) ==
  IF Truthy(searchTerm)
  THEN Len(category.sections) > 0 \/ category.categoryMatches
  ELSE IF categoryFilter # All THEN categoryFilter = category.code
  ELSE IF showPinnedOnly
       THEN \E i \in 1..Len(category.sections) :
              has(pinned, sectionKey(category.code, category.sections[i].code))
  ELSE FALSE

\* shouldAutoOpenCategory (app.js 358-369), for a category of the filtered view.
shouldAutoOpenCategory(category, searchTerm, categoryFilter, showPinnedOnly, pinned) ==
  IF categoryFilter # All THEN categoryFilter = category.code
  ELSE IF showPinnedOnly
       THEN \E i \in 1..Len(category.sections) :
              has(pinned, sectionKey(category.code, category.sections[i].code))
  ELSE IF Truthy(searchTerm)
       THEN Len(category.sections) > 0 \/ category.categoryMatches
  ELSE FALSE

\* All sections of the dataset, in order (the double forEach of app.js 539-546).
RECURSIVE allSections(_)
allSections(cats) ==
  IF cats = <<>> THEN <<>>
  ELSE cats[1].sections \o allSections(Tail(cats))

\* A slip of the allocated count: the links are counted, not the sections
\* that have some.
computeGlobalTotalsCountingLinks(cats, pinned) ==
  LET all == allSections(cats)
      totalSections == Len(all)
      allocatedSections == countLinks(all)
  IN  [totalSections |-> totalSections,
       allocatedSections |-> allocatedSections,
       pinnedCount |-> Len(pinned),
       allocationProgress |->
         IF totalSections # 0 THEN <<allocatedSections * 100, totalSections>>
         ELSE <<0, 1>>]

\* computeGlobalTotals (app.js 536-550).  allocationProgress, the quotient
\* allocatedSections / totalSections * 100, is kept exact as <<numerator,
\* denominator>>; it is <<0, 1>> when there is no section.
computeGlobalTotals(cats, pinned) ==
  LET all == allSections(cats)
      totalSections == Len(all)
      allocatedSections == Len(SelectSeq(all, LAMBDA s : Len(s.links) # 0))
  IN  [totalSections |-> totalSections,
       allocatedSections |-> allocatedSections,
       pinnedCount |-> Len(pinned),
       allocationProgress |->
         IF totalSections # 0 THEN <<allocatedSections * 100, totalSections>>
         ELSE <<0, 1>>]

Max(a, b) == IF a >= b THEN a ELSE b

Min(a, b) == IF a <= b THEN a ELSE b

\* Math.round of the non-negative quotient q[1] / q[2]: halves round up.
MathRound(q) == (2 * q[1] + q[2]) \div (2 * q[2])

\* updateCommandCentreStats (app.js 513-534): the texts of the metric
\* elements; progress is safeProgress, the number before the '%' sign, and
\* progressPath the two numbers of the stroke-dasharray.
updateCommandCentreStats(totals) ==
  LET progressValue == MathRound(totals.allocationProgress)
      safeProgress == Max(0, Min(100, progressValue))
      remainder == Max(0, 100 - safeProgress)
  IN  [totalSubjects |-> totals.totalSections,
       allocated |-> totals.allocatedSections,
       pinned |-> totals.pinnedCount,
       progress |-> safeProgress,
       progressPath |-> <<safeProgress, remainder>>]

\* ------------------------------------------------------------------ pin store

Quote == "\""

Backslash == "\\"

\* The body of a JSON string literal: a quote and a backslash are escaped.
RECURSIVE escapeJSON(_)
escapeJSON(t) ==
  IF t = <<>> THEN <<>>
  ELSE (IF t[1] \in {Quote, Backslash} THEN <<Backslash, t[1]>> ELSE <<t[1]>>)
       \o escapeJSON(Tail(t))

\* An encoding that writes the keys between quotes as they are.
JSONstringifyUnescaped(arr) ==
  <<"[">>
  \o join([i \in 1..Len(arr) |-> <<Quote>> \o arr[i] \o <<Quote>>], <<",">>)
  \o <<"]">>

\* JSON.stringify of an array of strings (app.js 71).
JSONstringify(arr) ==
  <<"[">>
  \o join([i \in 1..Len(arr) |-> <<Quote>> \o escapeJSON(arr[i]) \o <<Quote>>], <<",">>)
  \o <<"]">>

\* A string literal whose body starts at t[i]: [ok, value, next], next being
\* the index after the closing quote.
RECURSIVE parseStringBody(_, _, _)
parseStringBody(t, i, acc) ==
  IF i > Len(t) THEN [ok |-> FALSE, value |-> <<>>, next |-> i]
  ELSE IF t[i] = Quote THEN [ok |-> TRUE, value |-> acc, next |-> i + 1]
  ELSE IF t[i] = Backslash
       THEN IF i + 1 <= Len(t) /\ t[i + 1] \in {Quote, Backslash, "/"}
            THEN parseStringBody(t, i + 2, Append(acc, t[i + 1]))
            ELSE [ok |-> FALSE, value |-> <<>>, next |-> i]
  ELSE parseStringBody(t, i + 1, Append(acc, t[i]))

\* The elements of an array from t[i] on, a string literal expected at t[i].
RECURSIVE parseElements(_, _, _)
parseElements(t, i, acc) ==
  IF i > Len(t) \/ t[i] # Quote THEN [ok |-> FALSE, value |-> <<>>]
  ELSE LET str == parseStringBody(t, i + 1, <<>>)
       IN  IF ~str.ok \/ str.next > Len(t) THEN [ok |-> FALSE, value |-> <<>>]
           ELSE IF t[str.next] = "]"
                THEN [ok |-> str.next = Len(t), value |-> Append(acc, str.value)]
           ELSE IF t[str.next] = ","
                THEN parseElements(t, str.next + 1, Append(acc, str.value))
           ELSE [ok |-> FALSE, value |-> <<>>]

\* JSON.parse (app.js 61) on the grammar the store can hold here: an array
\* of string literals, a string literal, a number, {} and the three
\* literals; no white space.  [threw, isArray, array]: threw is the
\* SyntaxError of a text outside the grammar.
JSONparse(t) ==
  LET bad == [threw |-> TRUE, isArray |-> FALSE, array |-> <<>>]
      scalar == [threw |-> FALSE, isArray |-> FALSE, array |-> <<>>]
  IN  IF t = <<>> THEN bad
      ELSE IF t[1] = "["
           THEN IF t = <<"[", "]">>
                THEN [threw |-> FALSE, isArray |-> TRUE, array |-> <<>>]
                ELSE LET els == parseElements(t, 2, <<>>)
                     IN  IF els.ok
                         THEN [threw |-> FALSE, isArray |-> TRUE, array |-> els.value]
                         ELSE bad
      ELSE IF t[1] = Quote
           THEN LET str == parseStringBody(t, 2, <<>>)
                IN  IF str.ok /\ str.next = Len(t) + 1 THEN scalar ELSE bad
      ELSE IF \/ t \in {<<"n", "u", "l", "l">>, <<"t", "r", "u", "e">>,
                        <<"f", "a", "l", "s", "e">>, <<"{", "}">>}
              \/ \A i \in 1..Len(t) : IsDigit(t[i])
           THEN scalar
      ELSE bad

\* loadPinned without its try/catch: the exception leaves the function.
loadPinnedNoCatch(stored, readOk) ==
  LET parsed == JSONparse(stored)
  IN  IF ~readOk THEN [raised |-> TRUE, value |-> <<>>]
      ELSE IF ~Truthy(stored) THEN [raised |-> FALSE, value |-> <<>>]
      ELSE IF parsed.threw THEN [raised |-> TRUE, value |-> <<>>]
      ELSE [raised |-> FALSE,
            value |-> SetFromArray(IF parsed.isArray THEN parsed.array ELSE <<>>)]

\* loadPinned (app.js 57-67).  stored is what getItem returns (Null for a
\* missing key); readOk is false when the access to localStorage throws.
\* [raised, value]: raised is an exception leaving loadPinned.
loadPinned(stored, readOk) ==
  LET parsed == JSONparse(stored)
      body == IF ~readOk THEN [threw |-> TRUE, value |-> <<>>]
              ELSE IF ~Truthy(stored) THEN [threw |-> FALSE, value |-> <<>>]
              ELSE IF parsed.threw THEN [threw |-> TRUE, value |-> <<>>]
              ELSE [threw |-> FALSE,
                    value |-> SetFromArray(IF parsed.isArray THEN parsed.array
                                           ELSE <<>>)]
  IN  IF body.threw THEN [raised |-> FALSE, value |-> <<>>]
      ELSE [raised |-> FALSE, value |-> body.value]

\* savePinned without its try/catch: the exception leaves the function.
savePinnedNoCatch(pinned, stored, writeOk) ==
  IF writeOk THEN [raised |-> FALSE, store |-> JSONstringify(pinned)]
  ELSE [raised |-> TRUE, store |-> stored]

\* savePinned (app.js 69-75).  writeOk is false when setItem throws (quota,
\* storage disabled).  [raised, store]: the exception leaving savePinned and
\* the content of the storage key afterwards.
savePinned(pinned, stored, writeOk) ==
  LET body == IF writeOk THEN [threw |-> FALSE, store |-> JSONstringify(pinned)]
              ELSE [threw |-> TRUE, store |-> stored]
  IN  IF body.threw THEN [raised |-> FALSE, store |-> stored]
      ELSE [raised |-> FALSE, store |-> body.store]

\* A toggle that only ever adds.
togglePinAddOnly(pinned, key) == add(pinned, key)

\* The membership change of togglePinned (app.js 442-446).
togglePin(pinned, key) ==
  IF has(pinned, key) THEN delete(pinned, key) ELSE add(pinned, key)

\* ------------------------------------------------------------------ start-up helpers

DigitValue(c) ==
  CASE c = "0" -> 0 [] c = "1" -> 1 [] c = "2" -> 2 [] c = "3" -> 3 [] c = "4" -> 4
    [] c = "5" -> 5 [] c = "6" -> 6 [] c = "7" -> 7 [] c = "8" -> 8 [] c = "9" -> 9

\* Number(text) of a text of digits (app.js 86).
RECURSIVE Number(_)
Number(t) ==
  IF t = <<>> THEN 0
  ELSE 10 * Number(SubSeq(t, 1, Len(t) - 1)) + DigitValue(t[Len(t)])

\* [...years].sort((a, b) => Number(b) - Number(a)) of distinct years.
RECURSIVE sortDescending(_)
sortDescending(years) ==
  IF years = <<>> THEN <<>>
  ELSE LET top == CHOOSE i \in 1..Len(years) :
                    \A j \in 1..Len(years) : Number(years[i]) >= Number(years[j])
       IN  <<years[top]>> \o sortDescending(delete(years, years[top]))

\* The years collected by the double forEach of app.js 78-84.
RECURSIVE yearsOf(_)
yearsOf(sections) ==
  IF sections = <<>> THEN <<>>
  ELSE LET front == yearsOf(SubSeq(sections, 1, Len(sections) - 1))
           year == extractYear(sections[Len(sections)].status)
       IN  IF Truthy(year) THEN add(front, year) ELSE front

\* The options without the sort: the years in the order the sections come.
populateStatusOptionsUnsorted(cats) == yearsOf(allSections(cats))

\* populateStatusOptions (app.js 77-93): the option values appended to the
\* status select.
populateStatusOptions(cats) == sortDescending(yearsOf(allSections(cats)))

\* populateCategoryFilter (app.js 95-102): the option values appended to the
\* category select.
populateCategoryFilter(cats) == [i \in 1..Len(cats) |-> cats[i].code]

\* renderCategoryNav (app.js 104-116): the category and the section count of
\* each navigation button.
renderCategoryNav(cats) ==
  [i \in 1..Len(cats) |-> [category |-> cats[i].code, count |-> Len(cats[i].sections)]]

\* ------------------------------------------------------------------ render

\* The pin button of each card: the key its click handler toggles and the
\* pinned flag it shows (createResourceCard, app.js 422-434).
cardsOf(category, pinned) ==
  [i \in 1..Len(category.sections) |->
     [key |-> sectionKey(category.code, category.sections[i].code),
      pinned |-> has(pinned, sectionKey(category.code, category.sections[i].code))]]

\* A render whose metrics are counted over the filtered view.
renderTotalsOfFiltered(cats, searchTerm, statusFilter, categoryFilter, showPinnedOnly, pinned) ==
  LET filtered == filterData(cats, searchTerm, statusFilter, categoryFilter,
                             showPinnedOnly, pinned)
  IN  IF Len(filtered) = 0
      THEN [kind |-> "empty-state",
            totals |-> computeGlobalTotals(filtered, pinned),
            metrics |-> updateCommandCentreStats(computeGlobalTotals(filtered, pinned))]
      ELSE [kind |-> "list",
            stats |-> computeStats(filtered),
            pinnedNote |-> showPinnedOnly,
            filtered |-> filtered,
            cards |-> [i \in 1..Len(filtered) |-> cardsOf(filtered[i], pinned)],
            open |-> [i \in 1..Len(filtered) |->
                        shouldAutoOpenCategory(filtered[i], searchTerm, categoryFilter,
                                               showPinnedOnly, pinned)],
            totals |-> computeGlobalTotals(filtered, pinned),
            metrics |-> updateCommandCentreStats(computeGlobalTotals(filtered, pinned))]

\* What render (app.js 178-295) leaves in the content area and in the
\* command-centre metrics.
render(cats, searchTerm, statusFilter, categoryFilter, showPinnedOnly, pinned) ==
  LET filtered == filterData(cats, searchTerm, statusFilter, categoryFilter,
                             showPinnedOnly, pinned)
  IN  IF Len(filtered) = 0
      THEN [kind |-> "empty-state",
            totals |-> computeGlobalTotals(cats, pinned),
            metrics |-> updateCommandCentreStats(computeGlobalTotals(cats, pinned))]
      ELSE [kind |-> "list",
            stats |-> computeStats(filtered),
            pinnedNote |-> showPinnedOnly,
            filtered |-> filtered,
            cards |-> [i \in 1..Len(filtered) |-> cardsOf(filtered[i], pinned)],
            open |-> [i \in 1..Len(filtered) |->
                        shouldAutoOpenCategory(filtered[i], searchTerm, categoryFilter,
                                               showPinnedOnly, pinned)],
            totals |-> computeGlobalTotals(cats, pinned),
            metrics |-> updateCommandCentreStats(computeGlobalTotals(cats, pinned))]

\* The content area before init has run, and after init has failed
\* (app.js 34-37).
BlankView == [kind |-> "blank"]

LoadErrorView == [kind |-> "load-error"]

\* ------------------------------------------------------------------ inputs

\* The most keys the model lets the pin set hold: a pin button adds a key
\* only below this size.
MaxPinned == 2

StoredA1 == <<"[", Quote, "A", "-", "1", Quote, "]">>

\* Twice the same key, and a key of no section.
StoredStale ==
  <<"[", Quote, "A", "-", "2", Quote, ",", Quote, "Z", "-", "9", Quote, ",",
    Quote, "A", "-", "2", Quote, "]">>

\* A key of no section that holds a quote, escaped in the stored text.
StoredQuoted == <<"[", Quote, "Q", Backslash, Quote, Quote, "]">>

\* What the storage key may hold when the page is opened: nothing, a text
\* that is no JSON, JSON that is no array, and arrays of keys.
StoredTexts ==
  { Null, <<"n", "o", "p", "e">>, <<"{", "}">>, StoredA1, StoredStale, StoredQuoted }

\* What the user may have in the search box when an input event fires.
SearchInputs ==
  { <<" ">>,
    <<" ", "f", "o", "o", " ">>,
    <<"b", "a", "r", " ", "F", "O", "O">>,
    <<"z", "z">>,
    <<"f", "i", "n", "e", "d">> }

\* The inputs of the browsing sessions (Spec): every document and search
\* input, a storage that works.
BrowseInputs ==
  [storedTexts |-> {Null, StoredA1}, reads |-> {TRUE}, writes |-> {TRUE},
   documents |-> Datasets, searches |-> SearchInputs]

\* The inputs of the storage sessions (SpecStore): every stored text, a
\* storage whose reads and writes may throw, one document and one search.
StoreInputs ==
  [storedTexts |-> StoredTexts, reads |-> BOOLEAN, writes |-> BOOLEAN,
   documents |-> {<<CategoryA>>}, searches |-> {<<" ", "f", "o", "o", " ">>}]

\* The inputs of the sessions on the document with hyphenated codes
\* (SpecCodes): an empty storage that works, one search.
CodeInputs ==
  [storedTexts |-> {Null}, reads |-> {TRUE}, writes |-> {TRUE},
   documents |-> {CodesDocument}, searches |-> {<<"d", "u", "e">>}]

\* ------------------------------------------------------------------ state

VARIABLES
  phase,            \* "fetching", "loaded" or "load-error": where init() is
  categories,       \* state.categories
  searchTerm,       \* state.searchTerm
  statusFilter,     \* state.statusFilter
  categoryFilter,   \* state.categoryFilter
  showPinnedOnly,   \* state.showPinnedOnly
  pinned,           \* state.pinned
  store,            \* localStorage[STORAGE_KEY], Null when the key is missing
  statusOptions,    \* the year options of the status select
  categoryOptions,  \* the category options of the category select
  categoryNav,      \* the buttons of the category navigation
  view,             \* what the page shows
  last              \* the handler that ran last and what it met

vars == <<phase, categories, searchTerm, statusFilter, categoryFilter, showPinnedOnly,
          pinned, store, statusOptions, categoryOptions, categoryNav, view, last>>

filterVars == <<searchTerm, statusFilter, categoryFilter, showPinnedOnly>>

\* The view render() builds from the state after the step.
Rendered ==
  render(categories, searchTerm, statusFilter, categoryFilter, showPinnedOnly, pinned)

\* The history record: op names the handler, key the toggled key, ok whether
\* the storage access (or the fetch) of the handler succeeded, raised whether
\* an exception left the handler, before the members of state.pinned when
\* the handler started, prev the key, ok and before of the handler that ran
\* just before when both are pin toggles (NoPrev otherwise).
NoPrev == [key |-> Null, ok |-> FALSE, before |-> {}]

Did(op, key, ok, raised, before) ==
  [op |-> op, key |-> key, ok |-> ok, raised |-> raised, before |-> before,
   prev |-> NoPrev]

\* The module's top level (app.js 4-11): state is built with loadPinned().
InitWith(inputs) ==
  \E stored \in inputs.storedTexts, readOk \in inputs.reads :
    /\ store = stored
    /\ pinned = loadPinned(stored, readOk).value
    /\ phase = IF loadPinned(stored, readOk).raised THEN "crashed" ELSE "fetching"
    /\ categories = <<>>
    /\ searchTerm = <<>>
    /\ statusFilter = All
    /\ categoryFilter = All
    /\ showPinnedOnly = FALSE
    /\ statusOptions = <<>>
    /\ categoryOptions = <<>>
    /\ categoryNav = <<>>
    /\ view = BlankView
    /\ last = Did("loadPinned", Null, readOk, loadPinned(stored, readOk).raised, {})

\* init() with a fetch that resolves to a document (app.js 39-55).
FetchOk(inputs) ==
  /\ phase = "fetching"
  /\ \E document \in inputs.documents :
       /\ categories' = document
       /\ statusOptions' = populateStatusOptions(document)
       /\ categoryOptions' = populateCategoryFilter(document)
       /\ categoryNav' = renderCategoryNav(document)
       /\ view' = render(document, searchTerm, statusFilter, categoryFilter,
                         showPinnedOnly, pinned)
  /\ phase' = "loaded"
  /\ last' = Did("init", Null, TRUE, FALSE, Members(pinned))
  /\ UNCHANGED <<filterVars, pinned, store>>

\* init() rejected with no catch: the rejection is lost and the content area
\* stays as it was.
FetchFailUncaught ==
  /\ phase = "fetching"
  /\ phase' = "load-error"
  /\ view' = view
  /\ last' = Did("init", Null, FALSE, TRUE, Members(pinned))
  /\ UNCHANGED <<categories, filterVars, pinned, store, statusOptions, categoryOptions, categoryNav>>

\* init() rejected: the fetch fails or answers with a non-ok status; the
\* catch of app.js 34-37 replaces the content.
FetchFail ==
  /\ phase = "fetching"
  /\ phase' = "load-error"
  /\ view' = LoadErrorView
  /\ last' = Did("init", Null, FALSE, FALSE, Members(pinned))
  /\ UNCHANGED <<categories, filterVars, pinned, store, statusOptions, categoryOptions, categoryNav>>

\* The input listener bound when the script starts, before init() has the
\* document.
SearchInputBoundAtStart(inputs) ==
  /\ phase \in {"fetching", "loaded"}
  /\ \E value \in inputs.searches :
       /\ searchTerm' = trim(value)
       /\ view' = render(categories, trim(value), statusFilter, categoryFilter,
                         showPinnedOnly, pinned)
  /\ last' = Did("searchInput", Null, TRUE, FALSE, Members(pinned))
  /\ UNCHANGED <<phase, categories, statusFilter, categoryFilter, showPinnedOnly,
                 pinned, store, statusOptions, categoryOptions, categoryNav>>

\* The input listener of the search box (app.js 119-123).
SearchInput(inputs) ==
  /\ phase = "loaded"
  /\ \E value \in inputs.searches :
       /\ searchTerm' = trim(value)
       /\ view' = render(categories, trim(value), statusFilter, categoryFilter,
                         showPinnedOnly, pinned)
  /\ last' = Did("searchInput", Null, TRUE, FALSE, Members(pinned))
  /\ UNCHANGED <<phase, categories, statusFilter, categoryFilter, showPinnedOnly,
                 pinned, store, statusOptions, categoryOptions, categoryNav>>

\* The clear button without its render() call: the view of the search stays.
ClearSearchNoRender ==
  /\ phase = "loaded"
  /\ searchTerm' = <<>>
  /\ view' = view
  /\ last' = Did("clearSearch", Null, TRUE, FALSE, Members(pinned))
  /\ UNCHANGED <<phase, categories, statusFilter, categoryFilter, showPinnedOnly,
                 pinned, store, statusOptions, categoryOptions, categoryNav>>

\* The click listener of the clear button (app.js 125-131).
ClearSearch ==
  /\ phase = "loaded"
  /\ searchTerm' = <<>>
  /\ view' = render(categories, <<>>, statusFilter, categoryFilter,
                    showPinnedOnly, pinned)
  /\ last' = Did("clearSearch", Null, TRUE, FALSE, Members(pinned))
  /\ UNCHANGED <<phase, categories, statusFilter, categoryFilter, showPinnedOnly,
                 pinned, store, statusOptions, categoryOptions, categoryNav>>

\* A status listener that also puts the category filter back to 'all'.
StatusChangeResetsCategory ==
  /\ phase = "loaded"
  /\ \E value \in {All} \cup Members(statusOptions) :
       /\ statusFilter' = value
       /\ view' = render(categories, searchTerm, value, All, showPinnedOnly, pinned)
  /\ categoryFilter' = All
  /\ last' = Did("statusChange", Null, TRUE, FALSE, Members(pinned))
  /\ UNCHANGED <<phase, categories, searchTerm, showPinnedOnly,
                 pinned, store, statusOptions, categoryOptions, categoryNav>>

\* The change listener of the status select (app.js 133-136).
StatusChange ==
  /\ phase = "loaded"
  /\ \E value \in {All} \cup Members(statusOptions) :
       /\ statusFilter' = value
       /\ view' = render(categories, searchTerm, value, categoryFilter,
                         showPinnedOnly, pinned)
  /\ last' = Did("statusChange", Null, TRUE, FALSE, Members(pinned))
  /\ UNCHANGED <<phase, categories, searchTerm, categoryFilter, showPinnedOnly,
                 pinned, store, statusOptions, categoryOptions, categoryNav>>

\* The change listener of the category select (app.js 138-141).
CategoryChange ==
  /\ phase = "loaded"
  /\ \E value \in {All} \cup Members(categoryOptions) :
       /\ categoryFilter' = value
       /\ view' = render(categories, searchTerm, statusFilter, value,
                         showPinnedOnly, pinned)
  /\ last' = Did("categoryChange", Null, TRUE, FALSE, Members(pinned))
  /\ UNCHANGED <<phase, categories, searchTerm, statusFilter, showPinnedOnly,
                 pinned, store, statusOptions, categoryOptions, categoryNav>>

\* The change listener of the pinned-only checkbox (app.js 143-146).
PinnedToggleChange ==
  /\ phase = "loaded"
  /\ \E checked \in BOOLEAN :
       /\ showPinnedOnly' = checked
       /\ view' = render(categories, searchTerm, statusFilter, categoryFilter,
                         checked, pinned)
  /\ last' = Did("pinnedToggleChange", Null, TRUE, FALSE, Members(pinned))
  /\ UNCHANGED <<phase, categories, searchTerm, statusFilter, categoryFilter,
                 pinned, store, statusOptions, categoryOptions, categoryNav>>

\* The keys of the pin buttons on the page.
VisibleKeys ==
  IF view.kind = "list"
  THEN UNION {{view.cards[i][j].key : j \in 1..Len(view.cards[i])} :
                i \in 1..Len(view.cards)}
  ELSE {}

\* The click listener of a pin button (app.js 431-434) and togglePinned
\* (app.js 441-449): an exception leaving savePinned would skip render().
TogglePinned(inputs) ==
  /\ phase = "loaded"
  /\ \E key \in VisibleKeys, writeOk \in inputs.writes :
       /\ has(pinned, key) \/ Len(pinned) < MaxPinned
       /\ LET toggled == togglePin(pinned, key)
             saved == savePinned(toggled, store, writeOk)
         IN  /\ pinned' = toggled
             /\ store' = saved.store
             /\ view' = IF saved.raised THEN view
                        ELSE render(categories, searchTerm, statusFilter,
                                    categoryFilter, showPinnedOnly, toggled)
             /\ last' = [Did("togglePinned", key, writeOk, saved.raised,
                             Members(pinned))
                           EXCEPT !.prev =
                             IF last.op = "togglePinned"
                             THEN [key |-> last.key, ok |-> last.ok,
                                   before |-> last.before]
                             ELSE NoPrev]
  /\ UNCHANGED <<phase, categories, filterVars, statusOptions, categoryOptions, categoryNav>>

NextWith(inputs) ==
  \/ FetchOk(inputs)
  \/ FetchFail
  \/ SearchInput(inputs)
  \/ ClearSearch
  \/ StatusChange
  \/ CategoryChange
  \/ PinnedToggleChange
  \/ TogglePinned(inputs)

Init == InitWith(BrowseInputs)

Next == NextWith(BrowseInputs)

\* The browsing sessions.
Spec == Init /\ [][Next]_vars

InitStore == InitWith(StoreInputs)

NextStore == NextWith(StoreInputs)

\* The storage sessions.
SpecStore == InitStore /\ [][NextStore]_vars

InitCodes == InitWith(CodeInputs)

NextCodes == NextWith(CodeInputs)

\* The sessions on the document with hyphenated codes.
SpecCodes == InitCodes /\ [][NextCodes]_vars

\* ------------------------------------------------------------------ claims: shared definitions

\* The filtered view of the current state.
Filtered ==
  filterData(categories, searchTerm, statusFilter, categoryFilter, showPinnedOnly, pinned)

Loaded == phase = "loaded"

\* The search tokens of the state: the white-space separated words of the
\* search term, lowercased.
Tokens == splitWords(toLowerCase(searchTerm))

\* The sections of a dataset category that pass the filters of the state.
PassingSections(category) ==
  SelectSeq(category.sections,
            LAMBDA s : sectionPasses(category, s, Tokens, statusFilter,
                                     categoryFilter, showPinnedOnly, pinned))

\* A dataset category is in the filtered view.
InOutput(category) == \E i \in 1..Len(Filtered) : Filtered[i].code = category.code

\* The text of the fields a value has: an absent field contributes nothing.
Present(v) == IF v = Undefined \/ v = Null THEN <<>> ELSE v

\* The searchable text of a category: code, title, description and the
\* labels of its quick links.
CategoryFieldsText(category) ==
  toLowerCase(join(<<Present(category.code), Present(category.title),
                     Present(category.description)>>
                   \o [i \in 1..Len(category.links) |-> Present(category.links[i].label)],
                   Space))

\* The searchable text of a section: category code and title, section code,
\* title, status and description, and the labels and URLs of its links.
SectionFieldsText(category, section) ==
  toLowerCase(join(<<Present(category.code), Present(category.title),
                     Present(section.code), Present(section.title),
                     Present(section.status), Present(section.description)>>
                   \o [i \in 1..Len(section.links) |->
                         Present(section.links[i].label) \o Space
                         \o Present(section.links[i].url)],
                   Space))

DefaultFilters ==
  statusFilter = All /\ categoryFilter = All /\ showPinnedOnly = FALSE

\* ------------------------------------------------------------------ C1

\* C1 (as claimed): a category is in the output of filterData if and only if
\* it has at least one passing section, or the search term is non-empty and
\* the category's own text (code, title, description, quick-link labels)
\* contains every search token; with an empty search a category with no
\* passing section is never in the output.
C1_CategorySurvivesIff ==
  Loaded =>
    \A j \in 1..Len(categories) :
      InOutput(categories[j]) <=>
        \/ Len(PassingSections(categories[j])) >= 1
        \/ /\ searchTerm # <<>>
           /\ \A t \in 1..Len(Tokens) :
                includes(CategoryFieldsText(categories[j]), Tokens[t])

\* ------------------------------------------------------------------ C2

\* A section of a dataset category whose key is in the pin set.
HasPinnedSection(category) ==
  \E k \in 1..Len(category.sections) :
    sectionKey(category.code, category.sections[k].code) \in Members(pinned)

PinnedSections(category) ==
  SelectSeq(category.sections,
            LAMBDA s : sectionKey(category.code, s.code) \in Members(pinned))

\* C2 (as claimed): with showPinnedOnly set, an empty search and both selects
\* on "all", the output holds exactly the categories with a pinned section,
\* each with exactly its pinned sections, and each of them is auto-opened.
C2_PinnedOnlyExactlyPinned ==
  (Loaded /\ showPinnedOnly /\ searchTerm = <<>> /\ statusFilter = All
     /\ categoryFilter = All) =>
    /\ \A j \in 1..Len(categories) :
         InOutput(categories[j]) <=> HasPinnedSection(categories[j])
    /\ \A i \in 1..Len(Filtered) :
         /\ \E j \in 1..Len(categories) :
              /\ categories[j].code = Filtered[i].code
              /\ Filtered[i].sections = PinnedSections(categories[j])
         /\ shouldAutoOpenCategory(Filtered[i], searchTerm, categoryFilter,
                                   showPinnedOnly, pinned)

\* ------------------------------------------------------------------ C3

\* The four predicates of the claim, together.
PassesAllFour(category, section) ==
  /\ categoryFilter = All \/ categoryFilter = category.code
  /\ ~showPinnedOnly \/ sectionKey(category.code, section.code) \in Members(pinned)
  /\ statusFilter = All \/ extractYear(section.status) = statusFilter
  /\ searchTerm = <<>> \/ matchesSearch(Tokens, sectionHaystack(category, section))

RECURSIVE IsSubsequence(_, _)
IsSubsequence(sub, seq) ==
  IF sub = <<>> THEN TRUE
  ELSE IF seq = <<>> THEN FALSE
  ELSE IF sub[1] = seq[1] THEN IsSubsequence(Tail(sub), Tail(seq))
  ELSE IsSubsequence(sub, Tail(seq))

CodesOf(cats) == [i \in 1..Len(cats) |-> cats[i].code]

\* C3: every category of the output carries exactly the sections of its
\* dataset category that satisfy the four predicates, in dataset order (a
\* section without a year never passes a specific year), and the categories
\* of the output are a subsequence of the dataset's categories.
C3_SectionsExactlyPassing ==
  Loaded =>
    /\ \A i \in 1..Len(Filtered) :
         \E j \in 1..Len(categories) :
           /\ categories[j].code = Filtered[i].code
           /\ Filtered[i].sections =
                SelectSeq(categories[j].sections,
                          LAMBDA s : PassesAllFour(categories[j], s))
           /\ \A m \in 1..Len(Filtered[i].sections) :
                statusFilter # All =>
                  extractYear(Filtered[i].sections[m].status) # Null
    /\ IsSubsequence(CodesOf(Filtered), CodesOf(categories))

\* All four filters are active and a category still shows some, not all, of
\* its sections.
C3_Witness ==
  /\ Loaded /\ categoryFilter # All /\ showPinnedOnly /\ statusFilter # All
  /\ searchTerm # <<>>
  /\ \E i \in 1..Len(Filtered), j \in 1..Len(categories) :
       /\ categories[j].code = Filtered[i].code
       /\ Len(Filtered[i].sections) >= 1
       /\ Len(Filtered[i].sections) < Len(categories[j].sections)

\* ------------------------------------------------------------------ C4

\* A section of the dataset is in the filtered view.
SectionInOutput(category, section) ==
  \E i \in 1..Len(Filtered) :
    /\ Filtered[i].code = category.code
    /\ \E m \in 1..Len(Filtered[i].sections) :
         Filtered[i].sections[m].code = section.code

\* C4 (as claimed): with the other three filters at their defaults, a section
\* passes if and only if every token is a substring of the lowercased text of
\* its searchable fields, also when its description is absent; permuting the
\* tokens never changes the filtered output.
C4_SearchConjunctive ==
  (Loaded /\ DefaultFilters /\ Len(Tokens) >= 1) =>
    /\ \A j \in 1..Len(categories) :
         \A k \in 1..Len(categories[j].sections) :
           SectionInOutput(categories[j], categories[j].sections[k]) <=>
             \A t \in 1..Len(Tokens) :
               includes(SectionFieldsText(categories[j], categories[j].sections[k]),
                        Tokens[t])
    /\ \A perm \in Permutations(1..Len(Tokens)) :
         filterData(categories,
                    join([t \in 1..Len(Tokens) |-> Tokens[perm[t]]], Space),
                    statusFilter, categoryFilter, showPinnedOnly, pinned) = Filtered

\* ------------------------------------------------------------------ C5

FilterOps ==
  {"searchInput", "clearSearch", "statusChange", "categoryChange", "pinnedToggleChange"}

\* C5: on a loaded dataset a filter-changing event leaves computeGlobalTotals,
\* and the metrics the page shows, as they were; a pin toggle changes nothing
\* of them but pinnedCount.
C5_GlobalsIndependentOfFilters ==
  [][Loaded =>
       LET was == computeGlobalTotals(categories, pinned)
           now == computeGlobalTotals(categories', pinned')
       IN  /\ last'.op \in FilterOps =>
                /\ now = was
                /\ view'.totals = view.totals
                /\ view'.totals = was
           /\ last'.op = "togglePinned" =>
                /\ now.totalSections = was.totalSections
                /\ now.allocatedSections = was.allocatedSections
                /\ now.allocationProgress = was.allocationProgress
                /\ view'.totals = now
           /\ last'.op \in FilterOps \cup {"togglePinned"}]_vars

\* A year has just been selected, it hides some sections, and the metrics
\* still count all of them.
C5_Witness ==
  /\ Loaded /\ last.op = "statusChange" /\ statusFilter # All
  /\ view.kind = "list"
  /\ view.stats.sectionCount < view.totals.totalSections
  /\ view.totals.pinnedCount >= 1

\* ------------------------------------------------------------------ C6

SymDiff(S, k) == IF k \in S THEN S \ {k} ELSE S \cup {k}

\* C6: a pin toggle flips the membership of its key and of no other; a second
\* toggle of the same key right after the first leaves the pin set as it was
\* before the first, and when both writes succeeded the stored array, read as
\* a set, is that set too.
C6_ToggleTwiceRestores ==
  last.op = "togglePinned" =>
    /\ Members(pinned) = SymDiff(last.before, last.key)
    /\ Cardinality(Members(pinned)) = Len(pinned)
    /\ last.prev.key = last.key =>
         /\ Members(pinned) = last.prev.before
         /\ (last.ok /\ last.prev.ok) =>
              /\ JSONparse(store).isArray
              /\ Members(JSONparse(store).array) = last.prev.before

\* The same key has been toggled twice in a row, both writes succeeded, and
\* the set that came back is not empty.
C6_Witness ==
  /\ last.op = "togglePinned" /\ last.prev.key = last.key
  /\ last.ok /\ last.prev.ok
  /\ last.key \in Members(pinned)
  /\ Len(pinned) >= 2

\* ------------------------------------------------------------------ C7

\* C7: when the store write of a pin toggle fails, no exception leaves
\* togglePinned, the key's membership is flipped in memory, the view is
\* rendered from the new pin set, the store keeps its content and the page
\* is not in the load-error state.
C7_WriteFailureSwallowed ==
  [][(last'.op = "togglePinned" /\ ~last'.ok) =>
       /\ ~last'.raised
       /\ Members(pinned') = SymDiff(Members(pinned), last'.key)
       /\ store' = store
       /\ view' = render(categories', searchTerm', statusFilter', categoryFilter',
                         showPinnedOnly', pinned')
       /\ phase' = "loaded"
       /\ view'.kind # "load-error"]_vars

\* A write has just failed: the store still holds the array of the page
\* load while the pin set in memory has moved on and is shown.
C7_Witness ==
  /\ last.op = "togglePinned" /\ ~last.ok
  /\ store = StoredA1
  /\ Members(pinned) # {<<"A", "-", "1">>}
  /\ view.kind = "list"
  /\ view.totals.pinnedCount = Len(pinned)

\* ------------------------------------------------------------------ C8

\* The keys each stored text of the model spells out.
ExpectedPins(stored) ==
  IF stored = StoredA1 THEN {<<"A", "-", "1">>}
  ELSE IF stored = StoredStale THEN {<<"A", "-", "2">>, <<"Z", "-", "9">>}
  ELSE IF stored = StoredQuoted THEN {<<"Q", Quote>>}
  ELSE {}

\* C8: loadPinned never raises; a missing key, a text that is no JSON, JSON
\* that is no array and a throwing read give the empty pin set, and a stored
\* array of keys gives exactly the set of those keys.
C8_LoadPinnedNeverRaises ==
  /\ phase # "crashed"
  /\ last.op = "loadPinned" =>
       /\ ~last.raised
       /\ Members(pinned) = (IF last.ok THEN ExpectedPins(store) ELSE {})
       /\ Cardinality(Members(pinned)) = Len(pinned)

\* The page has started on a stored text that is no JSON, with no pin.
C8_Witness ==
  /\ last.op = "loadPinned" /\ last.ok
  /\ store = <<"n", "o", "p", "e">>
  /\ pinned = <<>>
  /\ phase = "fetching"

\* ------------------------------------------------------------------ C9

\* The branch the claim selects for a category of the filtered view.
ExpandByPrecedence(category) ==
  IF categoryFilter # All THEN category.code = categoryFilter
  ELSE IF showPinnedOnly
       THEN \E m \in 1..Len(category.sections) :
              sectionKey(category.code, category.sections[m].code) \in Members(pinned)
  ELSE IF searchTerm # <<>>
       THEN Len(category.sections) >= 1 \/ category.categoryMatches
  ELSE FALSE

\* C9: for every category of the displayed list, the open flag is the value
\* of the one branch chosen by precedence: the category filter first, then
\* pinned-only, then the search term, else closed.
C9_AutoOpenPrecedence ==
  (Loaded /\ view.kind = "list") =>
    /\ Len(view.open) = Len(view.filtered)
    /\ \A i \in 1..Len(view.filtered) :
         view.open[i] = ExpandByPrecedence(view.filtered[i])

\* The category filter is set together with pinned-only and a search term,
\* and a category that the search branch would open stays closed.
C9_Witness ==
  /\ Loaded /\ view.kind = "list"
  /\ categoryFilter # All /\ showPinnedOnly /\ searchTerm # <<>>
  /\ \E i \in 1..Len(view.filtered) :
       /\ ~view.open[i]
       /\ view.filtered[i].categoryMatches
  /\ \E i \in 1..Len(view.filtered) : view.open[i]

\* ------------------------------------------------------------------ C10

\* No section of the dataset passes the filters of the state.
NoSectionPasses ==
  \A j \in 1..Len(categories) : Len(PassingSections(categories[j])) = 0

\* C10 (as claimed): on a loaded dataset, whenever no section passes the
\* filters the page shows the empty-result state (and never the load error);
\* a search that matches nothing, with no other filter, on a non-empty
\* dataset gives an empty filtered sequence and counts of 0.
C10_EmptyResultState ==
  Loaded =>
    /\ NoSectionPasses => view.kind = "empty-state"
    /\ view.kind # "load-error"
    /\ (DefaultFilters /\ searchTerm # <<>> /\ categories # <<>> /\ NoSectionPasses
          /\ \A j \in 1..Len(categories) :
               ~matchesSearch(Tokens, categorySearchText(categories[j])))
         => /\ Filtered = <<>>
            /\ computeStats(Filtered) = [sectionCount |-> 0, linkCount |-> 0]

\* ------------------------------------------------------------------ C11

\* The sections of the dataset whose status holds the year.
SectionsOfYear(year) ==
  SelectSeq(allSections(categories), LAMBDA s : extractYear(s.status) = year)

\* The sections of the filtered view when the year is selected and the other
\* filters are at their defaults.
SectionsShownFor(year) ==
  allSections(filterData(categories, <<>>, year, All, FALSE, pinned))

\* C11: every year option of the status select, selected with the other
\* filters at their defaults, shows exactly the sections of the dataset whose
\* extractYear is that year, and at least one; the year of every section that
\* has one is among the options, each year once, in descending numeric order.
C11_YearOptionsMatchSections ==
  Loaded =>
    /\ \A n \in 1..Len(statusOptions) :
         /\ SectionsShownFor(statusOptions[n]) = SectionsOfYear(statusOptions[n])
         /\ SectionsShownFor(statusOptions[n]) # <<>>
    /\ \A j \in 1..Len(categories) :
         \A k \in 1..Len(categories[j].sections) :
           extractYear(categories[j].sections[k].status) # Null =>
             \E n \in 1..Len(statusOptions) :
               statusOptions[n] = extractYear(categories[j].sections[k].status)
    /\ \A m, n \in 1..Len(statusOptions) :
         m < n => Number(statusOptions[m]) > Number(statusOptions[n])

\* The year that two sections share has been selected with the other filters
\* at their defaults: both sections are shown, the older year is the second
\* option although its section comes first in the document.
C11_Witness ==
  /\ Loaded /\ last.op = "statusChange"
  /\ statusFilter = <<"2", "0", "2", "3">>
  /\ searchTerm = <<>> /\ categoryFilter = All /\ ~showPinnedOnly
  /\ view.kind = "list"
  /\ Len(allSections(view.filtered)) = 2
  /\ statusOptions = <<<<"2", "0", "2", "3">>, <<"2", "0", "1", "9">>>>
  /\ extractYear(categories[1].sections[1].status) = <<"2", "0", "1", "9">>

\* ------------------------------------------------------------------ C12

\* The sections the displayed categories carry, and the links of those
\* sections, each named by its position.
ShownSections ==
  UNION {{<<i, m>> : m \in 1..Len(view.filtered[i].sections)} :
           i \in 1..Len(view.filtered)}

ShownSectionLinks ==
  UNION {{<<p[1], p[2], l>> :
            l \in 1..Len(view.filtered[p[1]].sections[p[2]].links)} :
           p \in ShownSections}

\* C12: the counts displayed above a list are the number of sections the
\* filtered categories carry and the number of links of those sections; the
\* quick links of a category are never counted, so the counts of the view
\* are those of its categories that carry a section.
C12_StatsCountSectionLinksOnly ==
  (Loaded /\ view.kind = "list") =>
    /\ view.filtered = Filtered
    /\ view.stats = computeStats(Filtered)
    /\ view.stats.sectionCount = Cardinality(ShownSections)
    /\ view.stats.linkCount = Cardinality(ShownSectionLinks)
    /\ view.stats =
         computeStats(SelectSeq(view.filtered, LAMBDA c : Len(c.sections) # 0))

\* A list shows a category that has a quick link and no section, next to a
\* section with two links: the link count is 2.
C12_Witness ==
  /\ Loaded /\ view.kind = "list"
  /\ \E i \in 1..Len(view.filtered) :
       Len(view.filtered[i].sections) = 0 /\ Len(view.filtered[i].links) >= 1
  /\ view.stats = [sectionCount |-> 1, linkCount |-> 2]

\* ------------------------------------------------------------------ C13

\* The page shows a filtered view: a list or the empty-result state.
ShowsFilteredView == view.kind \in {"list", "empty-state"}

\* C13: as long as init() has not completed on a fetched document, the
\* filter state has its initial values, no filtered view is shown, and the
\* only step the page takes is the completion or the failure of init(): no
\* handler runs, so the filter state, the pin set and the store stay as they
\* are, and after a failure there is still no filtered view and no dataset.
C13_NothingBeforeLoad ==
  [][phase # "loaded" =>
       /\ ~ShowsFilteredView
       /\ searchTerm = <<>> /\ statusFilter = All /\ categoryFilter = All
       /\ showPinnedOnly = FALSE
       /\ categories = <<>>
       /\ last'.op = "init"
       /\ UNCHANGED <<searchTerm, statusFilter, categoryFilter, showPinnedOnly,
                      pinned, store>>
       /\ phase' # "loaded" =>
            /\ view'.kind \notin {"list", "empty-state"}
            /\ categories' = <<>>]_vars

\* init() has ended without a document: the pin set still holds the stored
\* key, the filter state is the initial one and no filtered view is shown.
C13_Witness ==
  /\ phase = "load-error" /\ last.op = "init"
  /\ pinned = <<<<"A", "-", "1">>>>
  /\ store = StoredA1
  /\ ~ShowsFilteredView
  /\ searchTerm = <<>> /\ statusFilter = All /\ categoryFilter = All
  /\ showPinnedOnly = FALSE

\* ------------------------------------------------------------------ C14

\* C14: the load-error state is entered by the failure of init() only, from
\* the pending fetch, and shows the error message in place of the content,
\* with no category list, no navigation button and no filter option, the
\* dataset empty and the filter state untouched; from the load-error state
\* the page takes no further step: the fetch is not retried and nothing
\* changes any more.
C14_LoadErrorIsFinal ==
  [][/\ phase' = "load-error" =>
          /\ phase = "fetching"
          /\ last'.op = "init" /\ ~last'.ok /\ ~last'.raised
          /\ view' = LoadErrorView
          /\ categories' = <<>>
          /\ statusOptions' = <<>> /\ categoryOptions' = <<>> /\ categoryNav' = <<>>
          /\ UNCHANGED <<searchTerm, statusFilter, categoryFilter, showPinnedOnly,
                         pinned, store>>
     /\ phase = "load-error" => FALSE
     /\ (last'.op = "init" /\ ~last'.ok) => phase' = "load-error"]_vars

\* The fetch has failed: the error message is shown, nothing else is
\* rendered and no step is left to take.
C14_Witness ==
  /\ phase = "load-error" /\ last.op = "init" /\ ~last.ok
  /\ view = LoadErrorView
  /\ categories = <<>> /\ statusOptions = <<>> /\ categoryOptions = <<>>
  /\ categoryNav = <<>>
  /\ ~ENABLED Next

\* ------------------------------------------------------------------ C15

\* The handlers bound to the page.
HandlerOps == FilterOps \cup {"togglePinned"}

\* C15: on a loaded dataset, after init and after every handler, the page
\* shows the view of the current filter state and pin set: the empty-result
\* state exactly when filterData of the current state is empty, otherwise
\* the categories and sections of filterData of the current state, a card
\* per section whose pinned flag is the membership of its key in the current
\* pin set, and a pinned count that is the size of the current pin set.
C15_ViewIsCurrent ==
  Loaded =>
    /\ last.op \in HandlerOps \cup {"init"}
    /\ view.kind \in {"list", "empty-state"}
    /\ view.kind = "empty-state" <=> Filtered = <<>>
    /\ view.kind = "list" =>
         /\ view.filtered = Filtered
         /\ Len(view.cards) = Len(Filtered)
         /\ \A i \in 1..Len(Filtered) :
              /\ Len(view.cards[i]) = Len(Filtered[i].sections)
              /\ \A m \in 1..Len(Filtered[i].sections) :
                   /\ view.cards[i][m].key =
                        sectionKey(Filtered[i].code, Filtered[i].sections[m].code)
                   /\ view.cards[i][m].pinned =
                        (view.cards[i][m].key \in Members(pinned))
    /\ view.totals.pinnedCount = Cardinality(Members(pinned))
    /\ view.metrics.pinned = Cardinality(Members(pinned))

\* With pinned-only on, a section has just been unpinned: its card has left
\* the list, which still shows another pinned section, and the pinned count
\* has gone down to 1.
C15_Witness ==
  /\ Loaded /\ last.op = "togglePinned" /\ showPinnedOnly
  /\ last.key \in last.before /\ last.key \notin Members(pinned)
  /\ view.kind = "list"
  /\ last.key \notin VisibleKeys
  /\ VisibleKeys # {}
  /\ view.metrics.pinned = 1

\* ------------------------------------------------------------------ C16

\* C16: after a pin toggle whose write succeeded, whatever the writes before
\* it did, the stored text is a JSON array whose elements, read as a set, are
\* the pin set, and loadPinned on that store raises nothing and returns the
\* pin set the session holds, keys in the same order.
C16_StoreMirrorsPinSet ==
  (last.op = "togglePinned" /\ last.ok) =>
    /\ ~JSONparse(store).threw
    /\ JSONparse(store).isArray
    /\ Members(JSONparse(store).array) = Members(pinned)
    /\ ~loadPinned(store, TRUE).raised
    /\ loadPinned(store, TRUE).value = pinned

\* A write failed, the next toggle's write succeeded, and the pin set holds
\* a key with a quote that came from the store at start-up.
C16_Witness ==
  /\ last.op = "togglePinned" /\ last.ok
  /\ last.prev.key # Null /\ ~last.prev.ok
  /\ <<"Q", Quote>> \in Members(pinned)
  /\ loadPinned(store, TRUE).value = pinned

\* ------------------------------------------------------------------ C17

\* The sections of the dataset that have at least one link, by position.
AllocatedPositions ==
  UNION {{<<j, k>> : k \in {k \in 1..Len(categories[j].sections) :
                              Len(categories[j].sections[k].links) >= 1}} :
           j \in 1..Len(categories)}

AllPositions ==
  UNION {{<<j, k>> : k \in 1..Len(categories[j].sections)} : j \in 1..Len(categories)}

\* C17: in every state the totals of computeGlobalTotals, which a loaded page
\* shows, have 0 <= allocatedSections <= totalSections, allocatedSections
\* being the number of sections of the dataset with at least one link;
\* allocationProgress is 0 when there is no section and allocatedSections *
\* 100 / totalSections otherwise, so it lies in 0..100 and so does the
\* percentage the page shows, which is that quotient rounded.
C17_AllocationWithinBounds ==
  LET totals == computeGlobalTotals(categories, pinned)
      progress == totals.allocationProgress
  IN  /\ totals.totalSections = Cardinality(AllPositions)
      /\ totals.allocatedSections = Cardinality(AllocatedPositions)
      /\ 0 <= totals.allocatedSections
      /\ totals.allocatedSections <= totals.totalSections
      /\ totals.totalSections = 0 => progress = <<0, 1>>
      /\ totals.totalSections # 0 =>
           progress = <<totals.allocatedSections * 100, totals.totalSections>>
      /\ progress[2] > 0
      /\ 0 <= progress[1] /\ progress[1] <= 100 * progress[2]
      /\ Loaded =>
           /\ view.totals = totals
           /\ view.metrics.progress \in 0..100
           /\ 2 * view.metrics.progress * progress[2] <= 2 * progress[1] + progress[2]
           /\ 2 * view.metrics.progress * progress[2] > 2 * progress[1] - progress[2]
           /\ view.metrics.progressPath =
                <<view.metrics.progress, 100 - view.metrics.progress>>

\* A document with no category has loaded: no division, the page shows 0%.
C17_Witness ==
  /\ Loaded /\ categories = <<>>
  /\ view.totals.totalSections = 0
  /\ view.totals.allocationProgress = <<0, 1>>
  /\ view.metrics.progress = 0
  /\ view.metrics.progressPath = <<0, 100>>

\* ------------------------------------------------------------------ C18

\* C18: on a loaded page every step is a handler's, and each handler changes
\* its own part of the state only: a pin toggle leaves the four filter fields
\* and the dataset as they are; the search box and the clear button change
\* searchTerm only, the status select statusFilter only, the category select
\* categoryFilter only and the pinned-only checkbox showPinnedOnly only,
\* each leaving the pin set, the store and the dataset as they are; no step
\* after load changes the dataset.
C18_HandlersChangeOwnPart ==
  [][Loaded =>
       /\ last'.op \in HandlerOps
       /\ categories' = categories
       /\ last'.op = "togglePinned" =>
            UNCHANGED <<searchTerm, statusFilter, categoryFilter, showPinnedOnly>>
       /\ last'.op \in FilterOps => UNCHANGED <<pinned, store>>
       /\ last'.op \in {"searchInput", "clearSearch"} =>
            UNCHANGED <<statusFilter, categoryFilter, showPinnedOnly>>
       /\ last'.op = "clearSearch" => searchTerm' = <<>>
       /\ last'.op = "statusChange" =>
            UNCHANGED <<searchTerm, categoryFilter, showPinnedOnly>>
       /\ last'.op = "categoryChange" =>
            UNCHANGED <<searchTerm, statusFilter, showPinnedOnly>>
       /\ last'.op = "pinnedToggleChange" =>
            UNCHANGED <<searchTerm, statusFilter, categoryFilter>>]_vars

\* A year has just been selected while a search, a category and pinned-only
\* were set and a section pinned: all of them are still there.
C18_Witness ==
  /\ Loaded /\ last.op = "statusChange" /\ statusFilter # All
  /\ searchTerm # <<>> /\ categoryFilter # All /\ showPinnedOnly
  /\ pinned # <<>> /\ store # Null
  /\ categories # <<>>

\* ------------------------------------------------------------------ C19

\* The category codes of the dataset are unique and so are the section codes
\* of each category.
UniqueCodes ==
  /\ \A i, j \in 1..Len(categories) :
       i # j => categories[i].code # categories[j].code
  /\ \A j \in 1..Len(categories) :
       \A k, m \in 1..Len(categories[j].sections) :
         k # m => categories[j].sections[k].code # categories[j].sections[m].code

\* The key of the section at a position of the dataset.
KeyAt(p) == sectionKey(categories[p[1]].code, categories[p[1]].sections[p[2]].code)

\* The sections whose pinned status the last handler changed.
PinChanged ==
  {p \in AllPositions : (KeyAt(p) \in last.before) # (KeyAt(p) \in Members(pinned))}

\* C19 (as claimed): on a dataset with unique category codes and, in each
\* category, unique section codes, two different sections never have the
\* same sectionKey, and a pin toggle changes the pinned status of exactly one
\* section, the one whose button was clicked.
C19_SectionKeyIdentifiesOne ==
  (Loaded /\ UniqueCodes) =>
    /\ \A p, q \in AllPositions : p # q => KeyAt(p) # KeyAt(q)
    /\ last.op = "togglePinned" =>
         /\ Cardinality(PinChanged) = 1
         /\ \A p \in PinChanged : KeyAt(p) = last.key

====
